---- MODULE Spec2Model ----
(***************************************************************************)
(* State-machine model of the WebP image optimizer:                        *)
(*   - the Home page with the quality slider (src/src/app/page.tsx),       *)
(*   - the uploader (src/src/components/image-uploader.tsx),               *)
(*   - the Home page variant with the sequential processQueue loop        *)
(*     (src/unnamed/part_008, lines 212-515),                              *)
(*   - the link prefetcher (src/unnamed/part_003),                         *)
(*   - the server action optimizeWebpImage                                 *)
(*     (src/src/ai/flows/optimize-webp-flow.ts, src/src/app/actions.ts).   *)
(*                                                                         *)
(* React state is modelled by applying every queued setImages updater in   *)
(* the order it was queued; a render and the effects that follow it are    *)
(* the action Render, and React commits it before the next event or        *)
(* callback is handled.  An optional field of a record is <<>> when it is  *)
(* undefined and <<v>> when it holds v.                                    *)
(***************************************************************************)
EXTENDS Integers, Sequences, FiniteSets, TLC

VARIABLES
  images,        \* useState<ImageFile[]>: the list of image records
  quality,       \* useState(75): the slider value
  changed,       \* state slots set since the last render: subset of {"images","quality"}
  rendered,      \* the images array captured by the effects of the last render
  runs,          \* the invocations of processImage / processQueue still in flight
  runCount,      \* per record id, the number of conversions started for it
  revoked,       \* object URLs passed to URL.revokeObjectURL
  idCount,       \* number of ids handed out by crypto.randomUUID
  presses,       \* number of clicks on the Re-compress / Clear All button
  lastBatch,     \* the FileList of the last change / drop event
  requeued,      \* ids the last Re-compress All click put back to pending
  pressQuality,  \* slider value at the last Re-compress All click (0: none yet)
  prefetchedUrls,    \* part_003: Set of URLs a hint was added for
  prefetchQueue,     \* part_003: the queue of URLs
  activePrefetches,  \* part_003: number of prefetches in flight
  idleCallbacks,     \* part_003: pending requestIdleCallback(processQueue) calls
  timeouts,          \* part_003: pending 500 ms timeouts of processQueue
  observed,          \* part_003: links under the IntersectionObserver
  connection,        \* part_003: navigator.connection
  hints,             \* part_003: the URLs of the <link rel=prefetch> added, in order
  readyState,        \* part_003: document.readyState
  dclFired,          \* part_003: the DOMContentLoaded event has been dispatched
  evaluated,         \* part_003: the script has been evaluated
  listening,         \* part_003: initialize is a DOMContentLoaded listener
  initialized,       \* part_003: number of calls of initialize
  calls,             \* optimize-webp-flow.ts: the calls of optimizeWebpImage
  modelCalls         \* optimize-webp-flow.ts: the inputs ai.generate was called with

pageVars == <<images, quality, changed, rendered, runs, runCount, revoked,
              idCount, presses, lastBatch, requeued, pressQuality>>
prefetchVars == <<prefetchedUrls, prefetchQueue, activePrefetches,
                  idleCallbacks, timeouts, observed, connection, hints>>
startVars == <<readyState, dclFired, evaluated, listening, initialized>>
flowVars == <<calls, modelCalls>>
nonPageVars == <<prefetchVars, startVars, flowVars>>
nonPrefetchVars == <<pageVars, startVars, flowVars>>
vars == <<pageVars, prefetchVars, startVars, flowVars>>

(***************************************************************************)
(* Bounds of the model.                                                    *)
(***************************************************************************)
MaxImages == 2      \* records the list may hold
MaxBatch == 2       \* length of an ordinary selection or drop
MaxPresses == 1     \* clicks on Re-compress All / Clear All

(***************************************************************************)
(* Optional values.                                                        *)
(***************************************************************************)
None == <<>>
Some(x) == <<x>>

Range(s) == {s[i] : i \in DOMAIN s}

(***************************************************************************)
(* The uploader: image-uploader.tsx.                                       *)
(* A MIME type "a/b" is the pair <<"a", "b">>.                            *)
(***************************************************************************)
MAX_FILES == 50
MAX_FILE_SIZE_MB == 100
ACCEPTED_IMAGE_TYPES ==
  << <<"image", "jpeg">>, <<"image", "png">>, <<"image", "gif">>,
     <<"image", "webp">>, <<"image", "avif">>, <<"image", "svg+xml">> >>

MaxFileSizeBytes == MAX_FILE_SIZE_MB * 1024 * 1024

\* The files a user may pick.
FilePool ==
  { [name |-> "a.png", type |-> <<"image", "png">>,  size |-> 1000],
    [name |-> "b.svg", type |-> <<"image", "svg+xml">>, size |-> MaxFileSizeBytes],
    [name |-> "c.bmp", type |-> <<"image", "bmp">>,  size |-> 1000],
    [name |-> "d.txt", type |-> <<"text", "plain">>, size |-> 1000],
    [name |-> "e.jpg", type |-> <<"image", "jpeg">>, size |-> MaxFileSizeBytes + 1] }

\* A FileList of n files: f first, h last, g between them.
Padded(n, f, g, h) ==
  [i \in 1..n |-> IF i = 1 THEN f ELSE IF i = n THEN h ELSE g]

\* The FileLists of the change and drop events: every list of up to
\* MaxBatch files, and lists around the MAX_FILES limit.
ShortLists(pool) == UNION {[1..n -> pool] : n \in 1..MaxBatch}

FileLists ==
  ShortLists(FilePool)
  \cup {Padded(n, fh[1], g, fh[2]) :
          n \in {MAX_FILES, MAX_FILES + 1},
          fh \in FilePool \X FilePool,
          g \in {x \in FilePool : x.name = "d.txt"}}

\* IsValidFile without the size test.
IsValidFileAnySize(file) == file.type \in Range(ACCEPTED_IMAGE_TYPES)

\* files.filter(...) callback of processFiles: the file is kept.
IsValidFile(file) ==
  /\ file.type \in Range(ACCEPTED_IMAGE_TYPES)
  /\ ~(file.size > MaxFileSizeBytes)

\* processFiles with the file count test off by one.
processFilesOffByOne(fileList) ==
  IF Len(fileList) > MAX_FILES + 1 THEN None
  ELSE LET validFiles == SelectSeq(fileList, IsValidFile)
       IN IF Len(validFiles) > 0 THEN Some(validFiles) ELSE None

\* processFiles: the argument handed to onFilesAdded, None when
\* onFilesAdded is not called.
processFiles(fileList) ==
  IF Len(fileList) > MAX_FILES THEN None
  ELSE LET validFiles == SelectSeq(fileList, IsValidFile)
       IN IF Len(validFiles) > 0 THEN Some(validFiles) ELSE None

(***************************************************************************)
(* The Home page: page.tsx.                                                *)
(***************************************************************************)
DefaultQuality == 75
SliderMin == 1
SliderValues == {SliderMin, DefaultQuality}

\* The pixel size the browser reports for a file.
DimensionsOf(file) ==
  IF file.type = <<"image", "svg+xml">>
    THEN [width |-> 300, height |-> 150]
    ELSE [width |-> 640, height |-> 480]

\* The size of the blob canvas.toBlob gives at a quality.
EncodedSize(q) == 100 + 10 * q

UnknownError == "An unknown error occurred during conversion."

\* The messages of the errors convertToWebp rejects with.
ConvertMessages ==
  {"Failed to get canvas context.", "Canvas toBlob returned null.",
   "Image failed to load.", "FileReader failed to read file.",
   "FileReader error."}

\* The error a file makes convertToWebp reject with, when it does.
ConvertFailure(file) ==
  IF file.type = <<"image", "svg+xml">>
    THEN "Canvas toBlob returned null."
    ELSE "Image failed to load."

\* URL.createObjectURL: the URL of a file is named by the record made for
\* it, the URL of an encoded blob by the conversion that made it; the URL
\* tells the quality its blob was encoded at (0: not encoded).
FileUrl(id) == [src |-> "file", n |-> <<id, 0>>, quality |-> 0]
BlobUrl(rid, q) == [src |-> "webp", n |-> rid, quality |-> q]

\* file.type.startsWith('image/')
StartsWithImage(file) == file.type[1] = "image"

\* handleFilesAdded: the records appended for files; the k-th new record
\* takes the k-th fresh id.
NewImageFiles(files, firstId) ==
  LET kept == SelectSeq(files, StartsWithImage)
  IN [k \in 1..Len(kept) |->
        [id |-> firstId + k,
         file |-> kept[k],
         originalUrl |-> FileUrl(firstId + k),
         convertedUrl |-> None,
         originalSize |-> kept[k].size,
         convertedSize |-> None,
         status |-> "pending",
         error |-> None,
         dimensions |-> None]]

\* { ...img, ...updates }
Merge(img, updates) ==
  [k \in DOMAIN img |-> IF k \in DOMAIN updates THEN updates[k] ELSE img[k]]

\* updateImageState without the test of the id.
updateImageStateAll(imgs, id, updates) ==
  [i \in DOMAIN imgs |-> Merge(imgs[i], updates)]

\* updateImageState applied to a list.
updateImageState(imgs, id, updates) ==
  [i \in DOMAIN imgs |->
     IF imgs[i].id = id THEN Merge(imgs[i], updates) ELSE imgs[i]]

\* The object URLs held by the records of a list.
UrlsOf(imgs) ==
  {imgs[i].originalUrl : i \in DOMAIN imgs}
  \cup UNION {Range(imgs[i].convertedUrl) : i \in DOMAIN imgs}

\* The pending test taking failed records too.
IsPendingOrError(image) == image.status \in {"pending", "error"}

IsPending(image) == image.status = "pending"
\* The pending records, but none while a record is converting.
PendingWhenIdle(imgs) ==
  IF \E i \in DOMAIN imgs : imgs[i].status = "converting"
    THEN <<>> ELSE SelectSeq(imgs, IsPending)

Pending(imgs) == SelectSeq(imgs, IsPending)

\* processImage taking the default quality instead of its argument.
NewRunDefaultQuality(imageFile, n, q) ==
  [rid |-> <<imageFile.id, n>>, id |-> imageFile.id, file |-> imageFile.file,
   quality |-> DefaultQuality, pc |-> "dimensions", rest |-> <<>>]

\* The run of processImage for a pending record of the rendered list, up
\* to its first await.
NewRun(imageFile, n, q) ==
  [rid |-> <<imageFile.id, n>>, id |-> imageFile.id, file |-> imageFile.file,
   quality |-> q, pc |-> "dimensions", rest |-> <<>>]

\* What a run does once the conversion it awaited has settled and its
\* last update is in imgs: processImage returns; the loop of processQueue
\* goes on to the next record of its snapshot, marks it converting and
\* calls convertToWebp for it.
AfterSettle(r, imgs) ==
  IF r.rest = <<>>
    THEN [images |-> imgs, runs |-> runs \ {r}, runCount |-> runCount]
    ELSE LET next == Head(r.rest)
         IN [images |-> updateImageState(imgs, next.id,
                                         [status |-> "converting"]),
             runs |-> (runs \ {r}) \cup
                      {[r EXCEPT !.rid = <<next.id, runCount[next.id] + 1>>,
                                 !.id = next.id,
                                 !.file = next.file,
                                 !.rest = Tail(r.rest)]},
             runCount |-> [runCount EXCEPT ![next.id] = @ + 1]]

\* A catch block that leaves the record as it is.
RejectSilent(r, message) ==
  /\ runs' = runs \ {r}
  /\ UNCHANGED <<images, runCount, changed, quality, rendered, revoked,
                 idCount, presses, lastBatch, requeued, pressQuality>>

\* The catch block: the record becomes an error record.
Reject(r, message) ==
  LET a == AfterSettle(r, updateImageState(images, r.id,
                 [status |-> "error", error |-> Some(message)]))
  IN /\ images' = a.images
     /\ runs' = a.runs
     /\ runCount' = a.runCount
     /\ changed' = changed \cup {"images"}
     /\ UNCHANGED <<quality, rendered, revoked, idCount, presses, lastBatch,
                    requeued, pressQuality>>

\* The change / drop event of the uploader: processFiles, then
\* handleFilesAdded with the files it passes on.
FilesAdded(fileList) ==
  LET arg == processFiles(fileList)
      new == IF arg = None THEN <<>> ELSE NewImageFiles(arg[1], idCount)
  IN /\ changed = {}
     /\ Len(images) + Len(new) <= MaxImages
     /\ images' = IF arg = None THEN images ELSE images \o new
     /\ changed' = IF arg = None THEN changed ELSE changed \cup {"images"}
     /\ idCount' = idCount + Len(new)
     /\ runCount' = runCount \o [k \in 1..Len(new) |-> 0]
     /\ UNCHANGED <<quality, rendered, runs, revoked, presses, requeued,
                    pressQuality>>

\* A render of Home and the effects that follow it: the cleanup of the
\* previous object-URL effect when images changed, then the
\* pending-images effect, which calls processImage for every pending
\* record; processImage runs up to its first await.
Render ==
  /\ changed # {}
  /\ LET pendingImages == Pending(images)
     IN /\ revoked' = IF "images" \in changed
                        THEN revoked \cup UrlsOf(rendered) ELSE revoked
        /\ rendered' = images
        /\ runs' = runs \cup {NewRun(pendingImages[k],
                                     runCount[pendingImages[k].id] + 1,
                                     quality) : k \in DOMAIN pendingImages}
        /\ runCount' = [id \in DOMAIN runCount |->
                          IF \E k \in DOMAIN pendingImages :
                               pendingImages[k].id = id
                            THEN runCount[id] + 1 ELSE runCount[id]]
        /\ images' = [i \in DOMAIN images |->
                        IF \E k \in DOMAIN pendingImages :
                             pendingImages[k].id = images[i].id
                          THEN Merge(images[i], [status |-> "converting"])
                          ELSE images[i]]
        /\ changed' = IF pendingImages = <<>> THEN {} ELSE {"images"}
  /\ UNCHANGED <<quality, idCount, presses, lastBatch, requeued,
                 pressQuality>>

\* processImage calling convertToWebp without storing the dimensions.
DimensionsLoadedNoWrite(r) ==
  /\ changed = {}
  /\ r.pc = "dimensions"
  /\ images' = images
  /\ runs' = (runs \ {r}) \cup {[r EXCEPT !.pc = "convert"]}
  /\ changed' = changed \cup {"images"}
  /\ UNCHANGED <<quality, rendered, runCount, revoked, idCount, presses,
                 lastBatch, requeued, pressQuality>>

\* getImageDimensions resolves: processImage stores the dimensions and
\* calls convertToWebp.
DimensionsLoaded(r) ==
  /\ changed = {}
  /\ r.pc = "dimensions"
  /\ images' = updateImageState(images, r.id,
                  [dimensions |-> Some(DimensionsOf(r.file))])
  /\ runs' = (runs \ {r}) \cup {[r EXCEPT !.pc = "convert"]}
  /\ changed' = changed \cup {"images"}
  /\ UNCHANGED <<quality, rendered, runCount, revoked, idCount, presses,
                 lastBatch, requeued, pressQuality>>

\* getImageDimensions rejects: img.onerror passes an event, not an Error.
DimensionsFailed(r) ==
  /\ changed = {}
  /\ r.pc = "dimensions"
  /\ Reject(r, UnknownError)

\* convertToWebp resolves with the blob encoded at the run's quality:
\* processImage makes its object URL and stores the result.
ConvertResolved(r) ==
  /\ changed = {}
  /\ r.pc = "convert"
  /\ LET a == AfterSettle(r, updateImageState(images, r.id,
                 [convertedUrl |-> Some(BlobUrl(r.rid, r.quality)),
                  convertedSize |-> Some(EncodedSize(r.quality)),
                  status |-> "done"]))
     IN /\ images' = a.images
        /\ runs' = a.runs
        /\ runCount' = a.runCount
  /\ changed' = changed \cup {"images"}
  /\ UNCHANGED <<quality, rendered, revoked, idCount, presses, lastBatch,
                 requeued, pressQuality>>

\* convertToWebp rejects.
ConvertRejected(r) ==
  /\ changed = {}
  /\ r.pc = "convert"
  /\ Reject(r, ConvertFailure(r.file))

\* Slider onValueChange; the slider is on the page once a record is shown.
SetQuality(value) ==
  /\ changed = {}
  /\ Len(rendered) > 0
  /\ value # quality
  /\ quality' = value
  /\ changed' = changed \cup {"quality"}
  /\ UNCHANGED <<images, rendered, runs, runCount, revoked, idCount, presses,
                 lastBatch, requeued, pressQuality>>

\* The records handleRecompressAll puts back to pending.
IsProcessed(image) == image.status = "done" \/ image.status = "error"

\* handleRecompressAll: the updater of its setImages.
Recompressed(prevImages) ==
  [i \in DOMAIN prevImages |->
     IF IsProcessed(prevImages[i])
       THEN Merge(prevImages[i], [status |-> "pending",
                                  convertedUrl |-> None,
                                  convertedSize |-> None,
                                  error |-> None])
       ELSE prevImages[i]]

\* Click on "Re-compress All Images with New Quality".
handleRecompressAll ==
  /\ changed = {}
  /\ Len(rendered) > 0
  /\ presses < MaxPresses
  /\ presses' = presses + 1
  /\ revoked' = revoked \cup
       UNION {Range(images[i].convertedUrl) :
                i \in {j \in DOMAIN images : IsProcessed(images[j])}}
  /\ images' = Recompressed(images)
  /\ changed' = changed \cup {"images"}
  /\ requeued' = {images[i].id :
                    i \in {j \in DOMAIN images : IsProcessed(images[j])}}
  /\ pressQuality' = quality
  /\ UNCHANGED <<quality, rendered, runs, runCount, idCount, lastBatch>>

PrefetchInit ==
  /\ prefetchedUrls = {}
  /\ prefetchQueue = <<>>
  /\ activePrefetches = 0
  /\ idleCallbacks = 0
  /\ timeouts = 0
  /\ observed = {}
  /\ connection = [saveData |-> FALSE, effectiveType |-> "4g"]
  /\ hints = <<>>

\* The page after its first render: no record, the slider at its default.
PageInit ==
  /\ images = <<>>
  /\ quality = DefaultQuality
  /\ changed = {}
  /\ rendered = <<>>
  /\ runs = {}
  /\ runCount = <<>>
  /\ revoked = {}
  /\ idCount = 0
  /\ presses = 0
  /\ lastBatch = <<>>
  /\ requeued = {}
  /\ pressQuality = 0

\* The script has been evaluated in a complete document: initialize has run.
StartedInit ==
  /\ readyState = "complete"
  /\ dclFired = TRUE
  /\ evaluated = TRUE
  /\ listening = FALSE
  /\ initialized = 1

\* No call of the server action yet.
FlowInit ==
  /\ calls = <<>>
  /\ modelCalls = <<>>

Init == PageInit /\ PrefetchInit /\ StartedInit /\ FlowInit

\* The files of FilePool the uploader passes on.
ValidPool == {f \in FilePool : IsValidFile(f)}

\* The files dropped on the page: below the size limit.
PagePool == {f \in ValidPool : f.size < MaxFileSizeBytes}

\* A selection or drop on the page.
Drop ==
  /\ \E fileList \in ShortLists(PagePool) : FilesAdded(fileList)
  /\ UNCHANGED <<lastBatch, nonPageVars>>

\* A selection or drop of any FileList.
UploadDrop ==
  /\ \E fileList \in FileLists : FilesAdded(fileList) /\ lastBatch' = fileList
  /\ UNCHANGED nonPageVars

PageRender == Render /\ UNCHANGED nonPageVars

\* The load and error callbacks of the conversions in flight.
Callback ==
  /\ \E r \in runs :
       \/ DimensionsLoaded(r)
       \/ DimensionsFailed(r)
       \/ ConvertResolved(r)
       \/ ConvertRejected(r)
  /\ UNCHANGED nonPageVars

SliderMoved ==
  /\ \E v \in SliderValues : SetQuality(v)
  /\ UNCHANGED nonPageVars

RecompressClicked == handleRecompressAll /\ UNCHANGED nonPageVars

Next ==
  \/ Drop
  \/ PageRender
  \/ Callback
  \/ SliderMoved
  \/ RecompressClicked

\* The Home page of page.tsx.
Spec == Init /\ [][Next]_vars

\* The Home page when the browser delivers every callback and React
\* commits every render.
LiveSpec == Spec /\ WF_vars(PageRender) /\ SF_vars(Callback)

UploadNext ==
  \/ UploadDrop
  \/ PageRender

\* The uploader in front of the list of the Home page: selections and
\* drops, and the renders that follow them.
SpecUpload == Init /\ [][UploadNext]_vars

(***************************************************************************)
(* The Home page with the processQueue loop: part_008, lines 212-515.      *)
(***************************************************************************)
\* convertToWebp(file, quality = 0.9): the default quality, in percent.
QueueQuality == 90

\* The error a file makes this convertToWebp reject with, when it does.
QueueConvertFailure(file) ==
  IF file.type = <<"image", "svg+xml">>
    THEN "Failed to get canvas context."
    ELSE "Failed to load image for conversion."

\* The object URL handleFilesAdded makes to read the dimensions of a file.
ProbeUrl(id) == [src |-> "file", n |-> <<id, -1>>, quality |-> 0]

\* handleFilesAdded: the records appended once every file has loaded.
NewQueueImageFiles(files, firstId) ==
  [k \in 1..Len(files) |->
     [id |-> firstId + k,
      file |-> files[k],
      originalUrl |-> FileUrl(firstId + k),
      convertedUrl |-> None,
      originalSize |-> files[k].size,
      convertedSize |-> None,
      status |-> "pending",
      error |-> None,
      dimensions |-> Some(DimensionsOf(files[k]))]]

\* The change / drop event: processFiles, then handleFilesAdded, which
\* appends the records when the last img.onload has fired.
QueueFilesAdded(fileList) ==
  LET arg == processFiles(fileList)
      new == IF arg = None THEN <<>> ELSE NewQueueImageFiles(arg[1], idCount)
  IN /\ changed = {}
     /\ Len(images) + Len(new) <= MaxImages
     /\ images' = IF arg = None THEN images ELSE images \o new
     /\ changed' = IF arg = None THEN changed ELSE changed \cup {"images"}
     /\ idCount' = idCount + Len(new)
     /\ runCount' = runCount \o [k \in 1..Len(new) |-> 0]
     /\ revoked' = revoked \cup {ProbeUrl(new[k].id) : k \in DOMAIN new}
     /\ UNCHANGED <<quality, rendered, runs, presses, lastBatch, requeued,
                    pressQuality>>

\* processQueue up to its first await: the loop over the pending records
\* of the rendered list marks the first one converting and calls
\* convertToWebp for it.
NewQueueRun(pendingImages, n) ==
  [rid |-> <<pendingImages[1].id, n>>, id |-> pendingImages[1].id,
   file |-> pendingImages[1].file, quality |-> QueueQuality,
   pc |-> "convert", rest |-> Tail(pendingImages)]

\* A render of this Home and its effects: the cleanup of the previous
\* object-URL effect, then processQueue.
QueueRender ==
  /\ changed # {}
  /\ LET pendingImages == Pending(images)
     IN /\ revoked' = revoked \cup UrlsOf(rendered)
        /\ rendered' = images
        /\ IF pendingImages = <<>>
             THEN /\ UNCHANGED <<images, runs, runCount>>
                  /\ changed' = {}
             ELSE LET first == pendingImages[1]
                  IN /\ runs' = runs \cup
                          {NewQueueRun(pendingImages, runCount[first.id] + 1)}
                     /\ runCount' = [runCount EXCEPT ![first.id] = @ + 1]
                     /\ images' = updateImageState(images, first.id,
                                                   [status |-> "converting"])
                     /\ changed' = {"images"}
  /\ UNCHANGED <<quality, idCount, presses, lastBatch, requeued,
                 pressQuality>>

\* convertToWebp rejects in a run of processQueue.
QueueConvertRejected(r) ==
  /\ changed = {}
  /\ r.pc = "convert"
  /\ Reject(r, QueueConvertFailure(r.file))

\* Click on "Clear All".
clearAll ==
  /\ changed = {}
  /\ Len(rendered) > 0
  /\ presses < MaxPresses
  /\ presses' = presses + 1
  /\ images' = <<>>
  /\ changed' = changed \cup {"images"}
  /\ UNCHANGED <<quality, rendered, runs, runCount, revoked, idCount,
                 lastBatch, requeued, pressQuality>>

IsDone(img) == img.status = "done"

\* convertedCount and progress of a render; progress is compared with 100
\* only, and the quotient is 100 exactly when the rounded-down one is.
convertedCount(imgs) == Len(SelectSeq(imgs, IsDone))

progress(imgs) ==
  IF Len(imgs) > 0 THEN (convertedCount(imgs) * 100) \div Len(imgs) ELSE 0

\* canDownloadAll taking one converted record for enough.
canDownloadAllOneDone(imgs) ==
  convertedCount(imgs) > 0 /\ progress(imgs) = 100

canDownloadAll(imgs) ==
  convertedCount(imgs) > 1 /\ progress(imgs) = 100

\* The last render put the "Download All (ZIP)" button on the page.
DownloadAllOffered == canDownloadAll(rendered)

QueueDrop ==
  /\ \E fileList \in ShortLists(PagePool) : QueueFilesAdded(fileList)
  /\ UNCHANGED <<lastBatch, nonPageVars>>

QueueRendered == QueueRender /\ UNCHANGED nonPageVars

QueueCallback ==
  /\ \E r \in runs : ConvertResolved(r) \/ QueueConvertRejected(r)
  /\ UNCHANGED nonPageVars

ClearClicked == clearAll /\ UNCHANGED nonPageVars

QueueNext ==
  \/ QueueDrop
  \/ QueueRendered
  \/ QueueCallback
  \/ ClearClicked

\* The Home page of part_008 with processQueue.
SpecQueue == Init /\ [][QueueNext]_vars

(***************************************************************************)
(* The link prefetcher: part_003.  The counters of window.__prefetchStats  *)
(* are for debugging only and are left out.                                *)
(***************************************************************************)
NumUrls == 3      \* internal pages the links of the document lead to
NumLinks == 4     \* <a href> elements of the document

MAX_CONCURRENT_PREFETCHES == 6

Urls == 1..NumUrls
Links == 1..NumLinks

\* link.href: the links are spread over the pages, so two links may lead
\* to one page.
Href(link) == ((link - 1) % NumUrls) + 1

Connections ==
  [saveData : BOOLEAN, effectiveType : {"2g", "3g", "4g"}]

\* shouldPrefetch
shouldPrefetch(conn) == IF conn.saveData THEN FALSE ELSE TRUE

\* getConcurrencyLimit
getConcurrencyLimit(conn) ==
  CASE conn.effectiveType = "2g" -> 2
    [] conn.effectiveType = "3g" -> 4
    [] OTHER -> MAX_CONCURRENT_PREFETCHES

\* The loop test with <= for <.
HasSlotInclusive(active, conn) == active <= getConcurrencyLimit(conn)

\* The test of the while loop of processQueue.
HasSlot(active, conn) == active < getConcurrencyLimit(conn)

\* processQueue on the state st = [queue, active, prefetched, hints,
\* timeouts]: the state when the while loop ends.
RECURSIVE processQueue(_, _)
processQueue(st, conn) ==
  IF HasSlot(st.active, conn) /\ Len(st.queue) > 0
    THEN LET urlToPrefetch == Head(st.queue)
             shifted == [st EXCEPT !.queue = Tail(st.queue)]
         IN IF urlToPrefetch \notin st.prefetched
              THEN processQueue(
                     [shifted EXCEPT !.active = @ + 1,
                                     !.prefetched = @ \cup {urlToPrefetch},
                                     !.hints = Append(@, urlToPrefetch),
                                     !.timeouts = @ + 1], conn)
              ELSE processQueue(shifted, conn)
    ELSE st

PrefetchState ==
  [queue |-> prefetchQueue, active |-> activePrefetches,
   prefetched |-> prefetchedUrls, hints |-> hints, timeouts |-> timeouts]

SetPrefetchState(st) ==
  /\ prefetchQueue' = st.queue
  /\ activePrefetches' = st.active
  /\ prefetchedUrls' = st.prefetched
  /\ hints' = st.hints
  /\ timeouts' = st.timeouts

\* scanAndObserveLinks: every eligible link is put under the observer.
scanAndObserveLinks ==
  /\ observed' = Links
  /\ UNCHANGED <<prefetchedUrls, prefetchQueue, activePrefetches,
                 idleCallbacks, timeouts, connection, hints>>

\* The test of queuePrefetch without prefetchQueue.includes.
IsEligibleNotPrefetched(url) ==
  /\ shouldPrefetch(connection)
  /\ url \notin prefetchedUrls

\* The test of queuePrefetch: the URL is pushed on the queue.
IsEligible(url) ==
  /\ shouldPrefetch(connection)
  /\ url \notin prefetchedUrls
  /\ url \notin Range(prefetchQueue)

\* queuePrefetch as run by the IntersectionObserver callback for a link
\* that intersects; the link is then unobserved.
Intersecting(link) ==
  /\ link \in observed
  /\ LET url == Href(link)
     IN IF IsEligible(url)
          THEN /\ prefetchQueue' = Append(prefetchQueue, url)
               /\ idleCallbacks' = idleCallbacks + 1
          ELSE UNCHANGED <<prefetchQueue, idleCallbacks>>
  /\ observed' = observed \ {link}
  /\ UNCHANGED <<prefetchedUrls, activePrefetches, timeouts, connection,
                 hints>>

\* The idle callback requestIdleCallback(processQueue) asked for.
IdleCallback ==
  /\ idleCallbacks > 0
  /\ idleCallbacks' = idleCallbacks - 1
  /\ SetPrefetchState(processQueue(PrefetchState, connection))
  /\ UNCHANGED <<observed, connection>>

\* The 500 ms timeout of a prefetch: the slot is released and the queue
\* processed again.
PrefetchTimeout ==
  /\ timeouts > 0
  /\ SetPrefetchState(processQueue(
       [PrefetchState EXCEPT !.active = @ - 1, !.timeouts = @ - 1],
       connection))
  /\ UNCHANGED <<idleCallbacks, observed, connection>>

\* The browser reports another connection.
ConnectionChange(conn) ==
  /\ conn # connection
  /\ connection' = conn
  /\ UNCHANGED <<prefetchedUrls, prefetchQueue, activePrefetches,
                 idleCallbacks, timeouts, observed, hints>>

PrefetchNext ==
  \/ scanAndObserveLinks /\ UNCHANGED nonPrefetchVars
  \/ (\E link \in Links : Intersecting(link)) /\ UNCHANGED nonPrefetchVars
  \/ IdleCallback /\ UNCHANGED nonPrefetchVars
  \/ PrefetchTimeout /\ UNCHANGED nonPrefetchVars
  \/ (\E conn \in Connections : ConnectionChange(conn)) /\ UNCHANGED nonPrefetchVars

\* The link prefetcher.
SpecPrefetch == Init /\ [][PrefetchNext]_vars

(***************************************************************************)
(* The start of the prefetcher: part_003, lines 184-207.  The document     *)
(* goes from loading to interactive, dispatches DOMContentLoaded, and      *)
(* becomes complete; the script is evaluated at any of these moments.      *)
(***************************************************************************)
\* document.readyState and whether DOMContentLoaded has been dispatched,
\* at the moment the script is evaluated.
DocumentStates ==
  { <<"loading", FALSE>>, <<"interactive", FALSE>>,
    <<"interactive", TRUE>>, <<"complete", TRUE>> }

StartInit ==
  /\ PageInit /\ PrefetchInit /\ FlowInit
  /\ \E d \in DocumentStates : readyState = d[1] /\ dclFired = d[2]
  /\ evaluated = FALSE
  /\ listening = FALSE
  /\ initialized = 0

\* initialize: the first scan; the MutationObserver and the wrapped
\* history methods it installs ask for the later scans.
initialize ==
  /\ initialized' = initialized + 1
  /\ scanAndObserveLinks

\* The script is evaluated: initialize is called in a complete document
\* and made a once-listener of DOMContentLoaded otherwise.
Evaluate ==
  /\ ~evaluated
  /\ evaluated' = TRUE
  /\ IF readyState = "complete"
       THEN initialize /\ UNCHANGED listening
       ELSE /\ listening' = TRUE
            /\ UNCHANGED <<initialized, prefetchVars>>
  /\ UNCHANGED <<readyState, dclFired, pageVars, flowVars>>

\* The parser has finished: readyState becomes interactive.
DocumentInteractive ==
  /\ readyState = "loading"
  /\ readyState' = "interactive"
  /\ UNCHANGED <<dclFired, evaluated, listening, initialized, prefetchVars,
                 pageVars, flowVars>>

\* The document dispatches DOMContentLoaded: a once-listener is called
\* and removed.
DOMContentLoaded ==
  /\ readyState = "interactive"
  /\ ~dclFired
  /\ dclFired' = TRUE
  /\ IF listening
       THEN initialize /\ listening' = FALSE
       ELSE UNCHANGED <<listening, initialized, prefetchVars>>
  /\ UNCHANGED <<readyState, evaluated, pageVars, flowVars>>

\* The load has finished: readyState becomes complete.
DocumentComplete ==
  /\ readyState = "interactive"
  /\ dclFired
  /\ readyState' = "complete"
  /\ UNCHANGED <<dclFired, evaluated, listening, initialized, prefetchVars,
                 pageVars, flowVars>>

\* A scan asked for by the MutationObserver or a wrapped history method.
Rescan ==
  /\ initialized > 0
  /\ scanAndObserveLinks
  /\ UNCHANGED nonPrefetchVars

StartNext ==
  \/ Evaluate
  \/ DocumentInteractive
  \/ DOMContentLoaded
  \/ DocumentComplete
  \/ Rescan
  \/ (\E link \in Links : Intersecting(link)) /\ UNCHANGED nonPrefetchVars
  \/ IdleCallback /\ UNCHANGED nonPrefetchVars
  \/ PrefetchTimeout /\ UNCHANGED nonPrefetchVars
  \/ (\E conn \in Connections : ConnectionChange(conn))
       /\ UNCHANGED nonPrefetchVars

\* The prefetcher from the evaluation of its script on, in a browser that
\* evaluates the script and carries the document to complete.
SpecStart ==
  /\ StartInit
  /\ [][StartNext]_vars
  /\ WF_vars(Evaluate)
  /\ WF_vars(DocumentInteractive)
  /\ WF_vars(DOMContentLoaded)
  /\ WF_vars(DocumentComplete)

\* C13: once the script has been evaluated, initialize eventually runs,
\* whatever the state of the document was at the evaluation, and it never
\* runs more than once.
C13_InitializeOnce ==
  /\ evaluated ~> (initialized >= 1)
  /\ [](initialized <= 1)

Occurrences(s, x) == Cardinality({k \in DOMAIN s : s[k] = x})

\* C11: whatever links intersect and however often the document is
\* scanned again, at most one prefetch hint is added per URL, the queue
\* never holds a URL twice, and it never holds a URL that was prefetched.
C11_NoDuplicatePrefetch ==
  /\ \A url \in Urls : Occurrences(hints, url) <= 1
  /\ \A url \in Urls : Occurrences(prefetchQueue, url) <= 1
  /\ \A k \in DOMAIN prefetchQueue : prefetchQueue[k] \notin prefetchedUrls

\* C11 witness: every link has intersected, two of them leading to the
\* same page, and every page has its one hint.
C11_Witness ==
  /\ observed = {}
  /\ prefetchQueue = <<>>
  /\ \E l1, l2 \in Links : l1 # l2 /\ Href(l1) = Href(l2)
  /\ \A url \in Urls : Occurrences(hints, url) = 1

\* C12: while navigator.connection.saveData is on, no step adds a
\* prefetch hint to the document.
C12_NoHintWhileSaveData ==
  [][connection.saveData => hints' = hints]_vars

(***************************************************************************)
(* The server action optimizeWebpImage: actions.ts and                     *)
(* optimize-webp-flow.ts.  A string is the sequence of its parts; a value  *)
(* carries its JavaScript type.                                            *)
(***************************************************************************)
MaxCalls == 2     \* calls of the server action

\* The values a client may call the server action with.
FlowInputs ==
  { [type |-> "string",
     text |-> <<"data:", "image/png", ";base64,", "iVBORw0KGgo=">>],
    [type |-> "string", text |-> <<"data:", "image/png", ",", "raw">>],
    [type |-> "string", text |-> <<"https://example.com/a.png">>],
    [type |-> "string", text |-> <<>>],
    [type |-> "number", text |-> <<>>],
    [type |-> "undefined", text |-> <<>>] }

ZodError == "ZodError"
NoWebpError == "AI model did not return a valid WebP image."
GenerateError == "ai.generate rejected"

\* The data URI of the WebP image the model returns.
WebpDataUri == <<"data:", "image/webp", ";base64,", "UklGRg==">>

\* OptimizeWebpInputSchema.parse: z.string() with a description; the
\* value when it is returned, None when parse throws.
OptimizeWebpInputSchemaParse(input) ==
  IF input.type = "string" THEN Some(input) ELSE None

\* optimizeWebpImage of actions.ts, which calls optimizeWebpImage of the
\* flow: the input is parsed, then the flow, whose inputSchema is the
\* same schema, calls ai.generate with it and awaits the response.
optimizeWebpImage(input) ==
  LET validatedInput == OptimizeWebpInputSchemaParse(input)
      k == Len(calls) + 1
  IN /\ Len(calls) < MaxCalls
     /\ IF validatedInput = None
          THEN /\ calls' = Append(calls, [input |-> input, pc |-> "threw",
                                          result |-> <<ZodError>>])
               /\ UNCHANGED modelCalls
          ELSE /\ calls' = Append(calls, [input |-> input, pc |-> "generate",
                                          result |-> <<>>])
               /\ modelCalls' = Append(modelCalls,
                                       [call |-> k, url |-> validatedInput[1]])

\* ai.generate resolves: the flow returns output.media.url, and throws
\* when the output has none.
GenerateResolved(k, hasMedia) ==
  /\ calls[k].pc = "generate"
  /\ calls' = [calls EXCEPT ![k] =
                 IF hasMedia
                   THEN [@ EXCEPT !.pc = "returned", !.result = WebpDataUri]
                   ELSE [@ EXCEPT !.pc = "threw", !.result = <<NoWebpError>>]]
  /\ UNCHANGED modelCalls

\* ai.generate rejects: the error passes through the flow to the caller.
GenerateRejected(k) ==
  /\ calls[k].pc = "generate"
  /\ calls' = [calls EXCEPT ![k] =
                 [@ EXCEPT !.pc = "threw", !.result = <<GenerateError>>]]
  /\ UNCHANGED modelCalls

OptimizeNext ==
  \/ (\E input \in FlowInputs : optimizeWebpImage(input))
       /\ UNCHANGED <<pageVars, prefetchVars, startVars>>
  \/ (\E k \in DOMAIN calls, hasMedia \in BOOLEAN :
         GenerateResolved(k, hasMedia))
       /\ UNCHANGED <<pageVars, prefetchVars, startVars>>
  \/ (\E k \in DOMAIN calls : GenerateRejected(k))
       /\ UNCHANGED <<pageVars, prefetchVars, startVars>>

\* The server action and its callers.
SpecOptimize == Init /\ [][OptimizeNext]_vars

\* A value of the form data:<mimetype>;base64,<encoded_data>.
IsBase64DataUri(input) ==
  /\ input.type = "string"
  /\ Len(input.text) = 4
  /\ input.text[1] = "data:"
  /\ input.text[2] # ""
  /\ input.text[3] = ";base64,"

\* C14: a call whose input is not a data URI of the form
\* data:<mimetype>;base64,<encoded_data> has thrown, and the model was not
\* called for it.
C14_InvalidInputRejected ==
  \A k \in DOMAIN calls :
    ~IsBase64DataUri(calls[k].input) =>
      /\ calls[k].pc = "threw"
      /\ \A m \in DOMAIN modelCalls : modelCalls[m].call # k

(***************************************************************************)
(* Properties of the image records.                                        *)
(***************************************************************************)
HasId(imgs, id) == \E i \in DOMAIN imgs : imgs[i].id = id
ById(imgs, id) == imgs[CHOOSE i \in DOMAIN imgs : imgs[i].id = id]

\* The status changes of a record that a conversion run makes, and the
\* one Re-compress All makes.
RunMoves == {<<"pending", "converting">>, <<"converting", "done">>,
             <<"converting", "error">>}
RequeueMoves == {<<"done", "pending">>, <<"error", "pending">>}

\* C1: every record enters the list as pending, and a step changes the
\* status of a record only from pending to converting, from converting to
\* done or error, or (Re-compress All) from done or error to pending: a
\* done or error record is never set back to converting.
C1_StatusMachine ==
  [][/\ \A j \in DOMAIN images' :
          ~HasId(images, images'[j].id) => images'[j].status = "pending"
     /\ \A i \in DOMAIN images :
          HasId(images', images[i].id) =>
            LET new == ById(images', images[i].id).status
            IN \/ new = images[i].status
               \/ <<images[i].status, new>> \in RunMoves \cup RequeueMoves
    ]_vars

FilesOf(imgs) == [i \in DOMAIN imgs |-> imgs[i].file]

\* A file the uploader accepts: its type is in the accepted list and its
\* size is at most 100 MB.
Accepted(file) ==
  /\ \E k \in DOMAIN ACCEPTED_IMAGE_TYPES : ACCEPTED_IMAGE_TYPES[k] = file.type
  /\ file.size <= 100 * 1024 * 1024

\* A step that is a selection or drop with an effect.
IsDropStep == lastBatch' # lastBatch \/ idCount' # idCount

C3_TooManyFilesRejected ==
  [][(IsDropStep /\ Len(lastBatch') > 50) =>
       (images' = images /\ changed' = changed /\ idCount' = idCount)]_vars

\* C3 witness: 51 files with accepted ones among them were dropped and
\* the list is still empty.
C3_Witness ==
  /\ Len(lastBatch) = 51
  /\ Accepted(lastBatch[1])
  /\ images = <<>>

\* C4: a step that makes a record an error record sets its status and its
\* error message, changes nothing else of it, leaves every other record as
\* it was and leaves every other conversion in flight.
C4_FailureIsLocal ==
  [][\A i \in DOMAIN images :
       (images[i].status # "error" /\ i \in DOMAIN images'
          /\ images'[i].status = "error") =>
         /\ images'[i].error # None
         /\ images'[i] = Merge(images[i], [status |-> "error",
                                           error |-> images'[i].error])
         /\ images' = [images EXCEPT ![i] = images'[i]]
         /\ \A r \in runs : r.id # images[i].id => r \in runs'
    ]_vars

\* C4 witness: one conversion failed and another record, untouched by the
\* failure, completed its conversion.
C4_Witness ==
  \E i, j \in DOMAIN images :
    /\ images[i].status = "error" /\ images[i].error # None
    /\ images[j].status = "done"
    /\ changed = {}

\* C5 as stated: once a record is an error record it stays one.
C5_ErrorIsFinal ==
  [][\A i \in DOMAIN images :
       (images[i].status = "error" /\ i \in DOMAIN images') =>
         images'[i].status = "error"]_vars

\* C5 amended: an error record stays an error record in every step but a
\* click on Re-compress All, which puts it back to pending together with
\* every other done or error record.
C5_ErrorUntilRecompress ==
  [][\A i \in DOMAIN images :
       (images[i].status = "error" /\ i \in DOMAIN images') =>
         \/ images'[i].status = "error"
         \/ /\ images'[i].status = "pending"
            /\ presses' = presses + 1
            /\ \A j \in DOMAIN images :
                 (images[j].status \in {"done", "error"})
                   => images'[j].status = "pending"
    ]_vars

\* C5 witness: a record that failed at the dimension probe was put back
\* to pending by Re-compress All.
C5_Witness ==
  \E i \in DOMAIN images :
    /\ images[i].id \in requeued
    /\ images[i].status = "pending"
    /\ images[i].dimensions = None

\* C6: whenever a record is pending, the render that starts its conversion
\* is enabled, whatever conversions are in flight, and that render leaves
\* no record pending.
C6_PendingStartsAtOnce ==
  /\ []((\E i \in DOMAIN images : IsPending(images[i])) => ENABLED PageRender)
  /\ [][(\E i \in DOMAIN images : IsPending(images[i])) /\ rendered' = images
          => \A j \in DOMAIN images' : ~IsPending(images'[j])]_vars

\* C6 witness: a later record is done while an earlier one is still
\* converting.
C6_Witness ==
  \E i, j \in DOMAIN images :
    /\ i < j
    /\ images[i].status = "converting"
    /\ images[j].status = "done"

StatusOf(id) ==
  IF HasId(images, id) THEN ById(images, id).status ELSE "absent"

\* C7: every record that is converting is eventually done or error.
C7_ConvertingSettles ==
  \A id \in 1..MaxImages :
    (StatusOf(id) = "converting") ~> (StatusOf(id) \in {"done", "error"})

\* C7 witness: a record that was converting when Re-compress All was
\* clicked, and whose run started before the slider was moved, is done.
C7_Witness ==
  \E i \in DOMAIN images :
    /\ presses > 0
    /\ images[i].id \notin requeued
    /\ images[i].status = "done"
    /\ images[i].convertedUrl[1].quality # quality

\* C8: no record of the list holds an object URL that has been revoked.
C8_NoRevokedUrlShown ==
  \A i \in DOMAIN images :
    /\ images[i].originalUrl \notin revoked
    /\ \A u \in Range(images[i].convertedUrl) : u \notin revoked

\* No conversion is in flight or about to start.
Settled ==
  /\ changed = {}
  /\ runs = {}
  /\ \A i \in DOMAIN images : IsProcessed(images[i])

\* C9 as stated: after a click on Re-compress All at slider value q, once
\* all conversions have settled every done record holds a result encoded
\* at q.
C9_AllDoneAtPressQuality ==
  (presses > 0 /\ Settled) =>
    \A i \in DOMAIN images :
      images[i].status = "done" =>
        images[i].convertedUrl[1].quality = pressQuality

\* C9 amended: ... every done record that the click put back to pending
\* holds a result encoded at q.
C9_RequeuedAtPressQuality ==
  (presses > 0 /\ Settled) =>
    \A i \in DOMAIN images :
      (images[i].status = "done" /\ images[i].id \in requeued) =>
        images[i].convertedUrl[1].quality = pressQuality

\* C9 witness: the slider was moved, Re-compress All clicked, and a
\* re-queued record is done at the new quality.
C9_Witness ==
  /\ presses > 0
  /\ Settled
  /\ pressQuality # DefaultQuality
  /\ \E i \in DOMAIN images :
       /\ images[i].id \in requeued
       /\ images[i].status = "done"
       /\ images[i].convertedUrl[1].quality = pressQuality

\* The conversions in flight for a record.
RunsOf(id) == {r \in runs : r.id = id}

\* C15: at most one conversion is in flight for a record, and a conversion
\* is started for a record exactly when it leaves the pending status: one
\* conversion each time it became pending.
C15_OneConversionPerPending ==
  /\ [](\A id \in DOMAIN runCount : Cardinality(RunsOf(id)) <= 1)
  /\ [][\A id \in DOMAIN runCount :
          /\ runCount'[id] # runCount[id] =>
                (runCount'[id] = runCount[id] + 1 /\ StatusOf(id) = "pending")
          /\ (StatusOf(id) = "pending" /\ HasId(images', id)
                /\ ById(images', id).status # "pending") =>
                runCount'[id] = runCount[id] + 1
       ]_vars
\* C16: a done record has convertedUrl and convertedSize and no error; a
\* pending or converting record has neither convertedUrl nor
\* convertedSize; an error record has its error and no convertedUrl.
C16_FieldsMatchStatus ==
  \A i \in DOMAIN images :
    /\ images[i].status = "done" =>
          /\ images[i].convertedUrl # None
          /\ images[i].convertedSize # None
          /\ images[i].error = None
    /\ images[i].status \in {"pending", "converting"} =>
          /\ images[i].convertedUrl = None
          /\ images[i].convertedSize = None
    /\ images[i].status = "error" =>
          /\ images[i].error # None
          /\ images[i].convertedUrl = None
\* C17: while the encode of a record is in flight the record holds the
\* dimensions the probe gave; a run whose probe is in flight either goes
\* on to the encode or ends with the record an error record with nothing
\* encoded; and every done record has its dimensions.
C17_ProbeBeforeEncode ==
  /\ [](\A r \in runs : r.pc = "convert" =>
          ById(images, r.id).dimensions = Some(DimensionsOf(r.file)))
  /\ [][\A r \in runs : (r.pc = "dimensions" /\ r \notin runs') =>
          \/ [r EXCEPT !.pc = "convert"] \in runs'
          \/ /\ RunsOf(r.id)' = {}
             /\ ById(images', r.id).status = "error"
             /\ ById(images', r.id).convertedUrl = None
             /\ ById(images', r.id).convertedSize = None
       ]_vars
  /\ [](\A i \in DOMAIN images :
          images[i].status = "done" => images[i].dimensions # None)

\* C17 witness: the probe of one record failed before anything was
\* encoded for it, and another record is done with its dimensions.
C17_Witness ==
  \E i, j \in DOMAIN images :
    /\ images[i].status = "error"
    /\ images[i].dimensions = None
    /\ runCount[images[i].id] = 1
    /\ images[j].status = "done"
    /\ images[j].dimensions = Some(DimensionsOf(images[j].file))
\* C18: "Download All (ZIP)" is on the page only if the list the page
\* shows has at least two records and every one of them is done; once
\* the page is up to date this is the list of the state.
C18_DownloadAllOnlyWhenAllDone ==
  /\ DownloadAllOffered =>
        /\ Len(rendered) >= 2
        /\ \A i \in DOMAIN rendered : rendered[i].status = "done"
  /\ (DownloadAllOffered /\ changed = {}) =>
        /\ Len(images) >= 2
        /\ \A i \in DOMAIN images : images[i].status = "done"

\* C18 witness: two records are done, nothing is in flight, and the
\* button is offered.
C18_Witness ==
  /\ DownloadAllOffered
  /\ changed = {}
  /\ runs = {}
  /\ Len(images) = 2
====
